---- MODULE Spec2Model ----
(***************************************************************************)
(* offPELE topology assembly: Molecule.parameterize and                    *)
(* Molecule.build_rotamer_library (src/offPELE/topology/molecule.py).      *)
(*                                                                         *)
(* Python values are represented as follows: a number is a natural and    *)
(* None in its place is NoneV; True / False are 1 / 0 (bool is an int in   *)
(* Python); an attribute that holds an object or None is <<object>> or     *)
(* Unset; a dict is a function whose keys() are iterated in the order of a *)
(* key sequence; a list is a sequence; an object is a record of its        *)
(* fields.                                                                 *)
(***************************************************************************)
EXTENDS Integers, Sequences, FiniteSets, TLC

VARIABLES
    off_molecule,     \* Molecule._off_molecule / _rdkit_molecule: Unset or <<molecule>>
    provider,         \* the tables the parameter provider reports for this molecule
    atoms,            \* Molecule._atoms
    bonds,            \* Molecule._bonds
    angles,           \* Molecule._angles
    propers,          \* Molecule._propers
    OFF_propers,      \* Molecule._OFF_propers
    impropers,        \* Molecule._impropers
    OFF_impropers,    \* Molecule._OFF_impropers
    graph,            \* Molecule._graph
    rotamer_library,  \* Molecule._rotamer_library
    err,              \* the exception the last call raised, NoErr if it returned
    stage,            \* the statement of the last call that raised or returned
    ncalls            \* number of parameterize calls made so far

vars == <<off_molecule, provider, atoms, bonds, angles, propers, OFF_propers,
          impropers, OFF_impropers, graph, rotamer_library, err, stage, ncalls>>

(***************************************************************************)
(* Bounds of the model.                                                    *)
(***************************************************************************)
MaxCalls == 2        \* parameterize calls explored on one molecule
MaxTerms == 2        \* periodicity terms per torsion class
MaxChain == 4        \* atoms of the chains whose atom, bond and angle tables vary
MaxGraphAtoms == 6   \* atoms of the molecules the rotamer graph is built on

(***************************************************************************)
(* Python values.                                                          *)
(***************************************************************************)
NoneV == -1
TrueV == 1
FalseV == 0
Unset == <<>>
NoErr == "none"

\* bool(x) of the values the torsion tables hold: None and 0 are falsy.
Truthy(v) == v # NoneV /\ v # 0

Min(S) == CHOOSE x \in S : \A y \in S : x <= y

\* list(range(a, b + 1)) restricted to the members of S, ascending.
RECURSIVE SortedSeq(_)
SortedSeq(S) ==
    IF S = {} THEN <<>> ELSE <<Min(S)>> \o SortedSeq(S \ {Min(S)})

Range(s) == {s[i] : i \in DOMAIN s}

(***************************************************************************)
(* Atom (molecule.py:12-113).                                              *)
(***************************************************************************)
Atom(index, core, OPLS_type, PDB_name, unknown, x, y, z, sigma, epsilon, charge, born_radius, SASA_radius, nonpolar_gamma, nonpolar_alpha, parent) ==
    [index |-> index, core |-> core, OPLS_type |-> OPLS_type,
     PDB_name |-> PDB_name, unknown |-> unknown, x |-> x, y |-> y, z |-> z,
     sigma |-> sigma, epsilon |-> epsilon, charge |-> charge,
     born_radius |-> born_radius, SASA_radius |-> SASA_radius,
     nonpolar_gamma |-> nonpolar_gamma, nonpolar_alpha |-> nonpolar_alpha,
     parent |-> parent]

set_as_core(atom) == [atom EXCEPT !.core = TrueV]

set_as_branch(atom) == [atom EXCEPT !.core = FalseV]

\* set_parent storing nothing.
set_parent_ignored(atom, parent) == atom

set_parent(atom, parent) == [atom EXCEPT !.parent = parent]

(***************************************************************************)
(* Records of topology.py, built from the keyword arguments molecule.py    *)
(* passes to their constructors.                                           *)
(***************************************************************************)
Bond(index, atom1_idx, atom2_idx, spring_constant, eq_dist) ==
    [index |-> index, atom1_idx |-> atom1_idx, atom2_idx |-> atom2_idx,
     spring_constant |-> spring_constant, eq_dist |-> eq_dist]

Angle(index, atom1_idx, atom2_idx, atom3_idx, spring_constant, eq_angle) ==
    [index |-> index, atom1_idx |-> atom1_idx, atom2_idx |-> atom2_idx,
     atom3_idx |-> atom3_idx, spring_constant |-> spring_constant,
     eq_angle |-> eq_angle]

OFFProper(atom1_idx, atom2_idx, atom3_idx, atom4_idx, periodicity, phase, k, idivf) ==
    [atom1_idx |-> atom1_idx, atom2_idx |-> atom2_idx, atom3_idx |-> atom3_idx,
     atom4_idx |-> atom4_idx, periodicity |-> periodicity, phase |-> phase,
     k |-> k, idivf |-> idivf]

OFFImproper(atom1_idx, atom2_idx, atom3_idx, atom4_idx, periodicity, phase, k, idivf) ==
    [atom1_idx |-> atom1_idx, atom2_idx |-> atom2_idx, atom3_idx |-> atom3_idx,
     atom4_idx |-> atom4_idx, periodicity |-> periodicity, phase |-> phase,
     k |-> k, idivf |-> idivf]

\* OFFProper.to_PELE() / OFFImproper.to_PELE(): the PELE form of the record,
\* over the same atom quadruple and periodicity.
to_PELE(off) ==
    [form |-> "PELE", atom1_idx |-> off.atom1_idx, atom2_idx |-> off.atom2_idx,
     atom3_idx |-> off.atom3_idx, atom4_idx |-> off.atom4_idx,
     periodicity |-> off.periodicity, phase |-> off.phase,
     constant |-> <<off.k, off.idivf>>]

(***************************************************************************)
(* The molecule the structure provider loaded: n atoms 0..n-1 and the set  *)
(* of its bonds {i, j}.                                                    *)
(***************************************************************************)
Mol(n, bs) == [n |-> n, bonds |-> bs]

\* keys() of get_vdW_parameters(): one 1-tuple per atom, in atom order.
vdW_keys(m) == [i \in 1..m.n |-> <<i - 1>>]

\* name.replace(' ', '_') on a name given as its characters.
replace(name) == [c \in DOMAIN name |-> IF name[c] = " " THEN "_" ELSE name[c]]

\* get_pdb_atom_names(): the PDB name of every atom of the molecule.
get_pdb_atom_names(m) == [i \in 1..m.n |-> <<" ", "C", "A", " ">>]

\* j / 2.0 on the (even) sigma values of the model.
Half(j) == j \div 2

Result(e, out) == [err |-> e, out |-> out]

\* _build_atoms with the Born radius initialised to 0 instead of None.
_build_atoms_born_zero(m, p) ==
    LET keys == vdW_keys(m)
        pdb_atom_names == [i \in DOMAIN keys |-> replace(get_pdb_atom_names(m)[i])]
        reported == p.vdW_sigmas
        sigmas == IF \A i \in DOMAIN reported : reported[i] = NoneV
                  THEN p.vdW_sigmas_from_rmin_halves
                  ELSE reported
        epsilons == p.vdW_epsilons
        SASA_radii == [i \in DOMAIN sigmas |-> Half(sigmas[i])]
    IN  IF \E i \in DOMAIN sigmas : sigmas[i] = NoneV
        THEN Result("TypeError", <<>>)
        ELSE Result(NoErr,
                    [i \in DOMAIN keys |->
                        Atom(keys[i][1], NoneV, NoneV, pdb_atom_names[i], NoneV,
                             i - 1, 0, 0, sigmas[i], epsilons[i], p.charges[i],
                             0, SASA_radii[i], NoneV, NoneV, NoneV)])

\* Molecule._build_atoms: the atoms it appends and the error it raises.
_build_atoms(m, p) ==
    LET keys == vdW_keys(m)
        pdb_atom_names == [i \in DOMAIN keys |-> replace(get_pdb_atom_names(m)[i])]
        reported == p.vdW_sigmas
        sigmas == IF \A i \in DOMAIN reported : reported[i] = NoneV
                  THEN p.vdW_sigmas_from_rmin_halves
                  ELSE reported
        epsilons == p.vdW_epsilons
        SASA_radii == [i \in DOMAIN sigmas |-> Half(sigmas[i])]
    IN  IF \E i \in DOMAIN sigmas : sigmas[i] = NoneV
        THEN Result("TypeError", <<>>)
        ELSE Result(NoErr,
                    [i \in DOMAIN keys |->
                        Atom(keys[i][1], NoneV, NoneV, pdb_atom_names[i], NoneV,
                             i - 1, 0, 0, sigmas[i], epsilons[i], p.charges[i],
                             NoneV, SASA_radii[i], NoneV, NoneV, NoneV)])

\* _build_bonds with the spring constant and the length exchanged.
_build_bonds_swapped(p) ==
    Result(NoErr,
           [i \in DOMAIN p.bond_keys |->
               LET atom_indexes == p.bond_keys[i]
               IN  Bond(i - 1, atom_indexes[1], atom_indexes[2],
                        p.bond_lengths[atom_indexes], p.bond_ks[atom_indexes])])

\* Molecule._build_bonds: one Bond per key of the bond table.
_build_bonds(p) ==
    Result(NoErr,
           [i \in DOMAIN p.bond_keys |->
               LET atom_indexes == p.bond_keys[i]
               IN  Bond(i - 1, atom_indexes[1], atom_indexes[2],
                        p.bond_ks[atom_indexes], p.bond_lengths[atom_indexes])])

\* Molecule._build_angles: one Angle per key of the angle table.
_build_angles(p) ==
    Result(NoErr,
           [i \in DOMAIN p.angle_keys |->
               LET atom_indexes == p.angle_keys[i]
               IN  Angle(i - 1, atom_indexes[1], atom_indexes[2], atom_indexes[3],
                         p.angle_ks[atom_indexes], p.angle_angles[atom_indexes])])

(***************************************************************************)
(* Torsions.  keys() of a torsion dict are iterated in the order the       *)
(* provider inserted them, given by the sequence `order`.                  *)
(***************************************************************************)
keys(d, order) == SelectSeq(order, LAMBDA q : q \in DOMAIN d)

\* default_idivfs filling in None, which drops every record.
default_idivfs_none(periodicities, idivfs) ==
    IF Len(idivfs) = 0
    THEN [t \in DOMAIN periodicities |->
             [q \in DOMAIN periodicities[t] |-> NoneV]]
    ELSE idivfs

\* molecule.py:369-373 and 423-427: idivf is optional in OpenForceField.
default_idivfs(periodicities, idivfs) ==
    IF Len(idivfs) = 0
    THEN [t \in DOMAIN periodicities |->
             [q \in DOMAIN periodicities[t] |-> 1]]
    ELSE idivfs

\* molecule.py:375-379 and 429-433
equal_lengths(periodicities, phases, ks, idivfs) ==
    /\ Len(periodicities) = Len(phases)
    /\ Len(periodicities) = Len(ks)
    /\ Len(periodicities) = Len(idivfs)

\* molecule.py:384-387 and 438-441
keys_match(period_by_index, phase_by_index, k_by_index, idivf_by_index) ==
    /\ DOMAIN period_by_index = DOMAIN phase_by_index
    /\ DOMAIN period_by_index = DOMAIN k_by_index
    /\ DOMAIN period_by_index = DOMAIN idivf_by_index

\* proper_term testing "k is not None" in place of the truth of k.
proper_term_k_not_none(period_by_index, phase_by_index, k_by_index, idivf_by_index, order) ==
    LET kept == SelectSeq(keys(period_by_index, order),
                          LAMBDA index : /\ Truthy(period_by_index[index])
                                         /\ Truthy(phase_by_index[index])
                                         /\ k_by_index[index] # NoneV
                                         /\ Truthy(idivf_by_index[index]))
    IN  [i \in DOMAIN kept |->
            OFFProper(kept[i][1], kept[i][2], kept[i][3], kept[i][4],
                      period_by_index[kept[i]], phase_by_index[kept[i]],
                      k_by_index[kept[i]], idivf_by_index[kept[i]])]

\* molecule.py:389-409: the OFFProper records one periodicity term appends.
proper_term(period_by_index, phase_by_index, k_by_index, idivf_by_index, order) ==
    LET kept == SelectSeq(keys(period_by_index, order),
                          LAMBDA index : /\ Truthy(period_by_index[index])
                                         /\ Truthy(phase_by_index[index])
                                         /\ Truthy(k_by_index[index])
                                         /\ Truthy(idivf_by_index[index]))
    IN  [i \in DOMAIN kept |->
            OFFProper(kept[i][1], kept[i][2], kept[i][3], kept[i][4],
                      period_by_index[kept[i]], phase_by_index[kept[i]],
                      k_by_index[kept[i]], idivf_by_index[kept[i]])]

\* molecule.py:443-463: the OFFImproper records one periodicity term appends.
improper_term(period_by_index, phase_by_index, k_by_index, idivf_by_index, order) ==
    LET kept == SelectSeq(keys(period_by_index, order),
                          LAMBDA index : /\ Truthy(period_by_index[index])
                                         /\ Truthy(phase_by_index[index])
                                         /\ Truthy(k_by_index[index])
                                         /\ Truthy(idivf_by_index[index]))
    IN  [i \in DOMAIN kept |->
            OFFImproper(kept[i][1], kept[i][2], kept[i][3], kept[i][4],
                        period_by_index[kept[i]], phase_by_index[kept[i]],
                        k_by_index[kept[i]], idivf_by_index[kept[i]])]

\* proper_terms skipping a term whose keys do not match instead of failing.
RECURSIVE proper_terms_skipping(_, _, _, _, _, _, _)
proper_terms_skipping(t, periodicities, phases, ks, idivfs, order, acc) ==
    IF t > Len(periodicities)
    THEN Result(NoErr, acc)
    ELSE IF ~keys_match(periodicities[t], phases[t], ks[t], idivfs[t])
    THEN proper_terms_skipping(t + 1, periodicities, phases, ks, idivfs, order, acc)
    ELSE proper_terms_skipping(t + 1, periodicities, phases, ks, idivfs, order,
                               acc \o proper_term(periodicities[t], phases[t],
                                                  ks[t], idivfs[t], order))

\* proper_terms keeping one record per quadruple: a later term replaces the
\* record an earlier term appended for the same quadruple.
RECURSIVE proper_terms_merging(_, _, _, _, _, _, _)
proper_terms_merging(t, periodicities, phases, ks, idivfs, order, acc) ==
    IF t > Len(periodicities)
    THEN Result(NoErr, acc)
    ELSE IF ~keys_match(periodicities[t], phases[t], ks[t], idivfs[t])
    THEN Result("AssertionError", acc)
    ELSE LET new == proper_term(periodicities[t], phases[t], ks[t], idivfs[t], order)
             old == SelectSeq(acc, LAMBDA r :
                        \A i \in DOMAIN new :
                            <<r.atom1_idx, r.atom2_idx, r.atom3_idx, r.atom4_idx>>
                              # <<new[i].atom1_idx, new[i].atom2_idx,
                                  new[i].atom3_idx, new[i].atom4_idx>>)
         IN  proper_terms_merging(t + 1, periodicities, phases, ks, idivfs, order,
                                  old \o new)

\* molecule.py:381-409: the loop over the zipped periodicity terms, from term t.
RECURSIVE proper_terms(_, _, _, _, _, _, _)
proper_terms(t, periodicities, phases, ks, idivfs, order, acc) ==
    IF t > Len(periodicities)
    THEN Result(NoErr, acc)
    ELSE IF ~keys_match(periodicities[t], phases[t], ks[t], idivfs[t])
    THEN Result("AssertionError", acc)
    ELSE proper_terms(t + 1, periodicities, phases, ks, idivfs, order,
                      acc \o proper_term(periodicities[t], phases[t], ks[t],
                                         idivfs[t], order))

\* molecule.py:435-463
RECURSIVE improper_terms(_, _, _, _, _, _, _)
improper_terms(t, periodicities, phases, ks, idivfs, order, acc) ==
    IF t > Len(periodicities)
    THEN Result(NoErr, acc)
    ELSE IF ~keys_match(periodicities[t], phases[t], ks[t], idivfs[t])
    THEN Result("AssertionError", acc)
    ELSE improper_terms(t + 1, periodicities, phases, ks, idivfs, order,
                        acc \o improper_term(periodicities[t], phases[t], ks[t],
                                             idivfs[t], order))

\* Molecule._build_propers: the OFFProper records it appends (their PELE
\* forms go to _propers) and the error it raises.
_build_propers(p) ==
    LET periodicities == p.dihedral_periodicities
        phases == p.dihedral_phases
        ks == p.dihedral_ks
        idivfs == default_idivfs(periodicities, p.dihedral_idivfs)
    IN  IF ~equal_lengths(periodicities, phases, ks, idivfs)
        THEN Result("AssertionError", <<>>)
        ELSE proper_terms(1, periodicities, phases, ks, idivfs,
                          p.dihedral_order, <<>>)

\* Molecule._build_impropers
_build_impropers(p) ==
    LET periodicities == p.improper_periodicities
        phases == p.improper_phases
        ks == p.improper_ks
        idivfs == default_idivfs(periodicities, p.improper_idivfs)
    IN  IF ~equal_lengths(periodicities, phases, ks, idivfs)
        THEN Result("AssertionError", <<>>)
        ELSE improper_terms(1, periodicities, phases, ks, idivfs,
                            p.improper_order, <<>>)

\* One PELE record per quadruple: the terms of a quadruple after its first
\* are left out of the PELE list.
PELE_first_term(offs) ==
    LET firsts == SelectSeq([i \in DOMAIN offs |-> <<i, offs[i]>>],
                            LAMBDA e :
                                \A j \in 1..(e[1] - 1) :
                                    <<offs[j].atom1_idx, offs[j].atom2_idx,
                                      offs[j].atom3_idx, offs[j].atom4_idx>>
                                      # <<e[2].atom1_idx, e[2].atom2_idx,
                                          e[2].atom3_idx, e[2].atom4_idx>>)
    IN  [i \in DOMAIN firsts |-> to_PELE(firsts[i][2])]

PELE(offs) == [i \in DOMAIN offs |-> to_PELE(offs[i])]

(***************************************************************************)
(* Molecule.parameterize(forcefield): the five build steps in order; an    *)
(* exception ends the call where it is raised and leaves what the earlier  *)
(* statements appended.                                                    *)
(***************************************************************************)
parameterize ==
    /\ ncalls < MaxCalls
    /\ ncalls' = ncalls + 1
    /\ UNCHANGED <<off_molecule, provider, graph, rotamer_library>>
    /\ IF off_molecule = Unset
       THEN /\ err' = "Exception: OpenForceField molecule was not initialized correctly"
            /\ stage' = "check"
            /\ UNCHANGED <<atoms, bonds, angles, propers, OFF_propers,
                           impropers, OFF_impropers>>
       ELSE LET m == off_molecule[1]
                rA == _build_atoms(m, provider)
                rB == _build_bonds(provider)
                rG == _build_angles(provider)
                rP == _build_propers(provider)
                rI == _build_impropers(provider)
                okA == rA.err = NoErr
                okB == okA /\ rB.err = NoErr
                okG == okB /\ rG.err = NoErr
                okP == okG /\ rP.err = NoErr
            IN  /\ atoms' = atoms \o rA.out
                /\ bonds' = IF okA THEN bonds \o rB.out ELSE bonds
                /\ angles' = IF okB THEN angles \o rG.out ELSE angles
                /\ propers' = IF okG THEN propers \o PELE(rP.out) ELSE propers
                /\ OFF_propers' = IF okG THEN OFF_propers \o rP.out
                                  ELSE OFF_propers
                /\ impropers' = IF okP THEN impropers \o PELE(rI.out)
                                ELSE impropers
                /\ OFF_impropers' = IF okP THEN OFF_impropers \o rI.out
                                    ELSE OFF_impropers
                /\ err' = IF ~okA THEN rA.err
                          ELSE IF ~okB THEN rB.err
                          ELSE IF ~okG THEN rG.err
                          ELSE IF ~okP THEN rP.err
                          ELSE rI.err
                /\ stage' = IF ~okA THEN "atoms"
                            ELSE IF ~okB THEN "bonds"
                            ELSE IF ~okG THEN "angles"
                            ELSE IF ~okP THEN "propers"
                            ELSE IF rI.err # NoErr THEN "impropers"
                            ELSE "done"

(***************************************************************************)
(* Rotamer graph (MolecularGraph): connectivity, core selection, parent    *)
(* assignment and rotamer partitioning.                                    *)
(***************************************************************************)
AtomIds(m) == 0..(m.n - 1)

neighbors(m, i) == {j \in AtomIds(m) : {i, j} \in m.bonds}

\* The atoms reachable from the set S over the bonds bs.
RECURSIVE Reach(_, _)
Reach(bs, S) ==
    LET T == S \cup {j \in UNION bs : \E i \in S : {i, j} \in bs}
    IN  IF T = S THEN S ELSE Reach(bs, T)

\* Distance from the set S to atom a over the bonds bs; m.n if unreachable.
RECURSIVE DistFrom(_, _, _, _, _)
DistFrom(m, bs, S, a, d) ==
    IF a \in S THEN d
    ELSE LET T == S \cup {j \in AtomIds(m) : \E i \in S : {i, j} \in bs}
         IN  IF T = S THEN m.n ELSE DistFrom(m, bs, T, a, d + 1)

Max(S) == CHOOSE x \in S : \A y \in S : x >= y

eccentricity(m, i) == Max({DistFrom(m, m.bonds, {i}, a, 0) : a \in AtomIds(m)})

\* A bond is a ring bond iff its ends stay connected without it.
ring_bonds(m) == {b \in m.bonds : \E u \in b : b \subseteq Reach(m.bonds \ {b}, {u})}

is_in_ring(m, i) == \E b \in ring_bonds(m) : i \in b

\* Absorb the atoms on shortest paths between separate parts of the core
\* until the core is connected.
RECURSIVE absorb(_, _)
absorb(m, core) ==
    LET inner == {b \in m.bonds : b \subseteq core}
        part == Reach(inner, {Min(core)})
        rest == core \ part
        gap == Min({DistFrom(m, m.bonds, part, a, 0) : a \in rest})
        path == {w \in AtomIds(m) \ core :
                    \E a \in rest :
                        DistFrom(m, m.bonds, part, w, 0)
                          + DistFrom(m, m.bonds, {w}, a, 0) = gap}
    IN  IF rest = {} \/ path = {} THEN core
        ELSE absorb(m, core \cup path)

select_core(m) ==
    LET ring == {i \in AtomIds(m) : is_in_ring(m, i)}
        fused == {i \in AtomIds(m) :
                     Cardinality(neighbors(m, i) \cap ring) >= 2}
        central == {i \in AtomIds(m) :
                       \A j \in AtomIds(m) :
                           eccentricity(m, i) <= eccentricity(m, j)}
    IN  IF ring # {} THEN absorb(m, ring \cup fused)
        ELSE {Min(central)}

\* Breadth-first parents: the root (lowest-index core atom) is its own
\* parent; a core atom is reached from the root inside the core, any other
\* atom from the whole core; among the neighbours one step closer the
\* lowest index is the parent.  NoneV for an atom that is not reached.
assign_parents(m, core) ==
    LET root == Min(core)
        inner == {b \in m.bonds : b \subseteq core}
        in_core(i) == DistFrom(m, inner, {root}, i, 0)
        to_core(i) == DistFrom(m, m.bonds, core, i, 0)
        d(i) == IF i \in core THEN in_core(i) ELSE to_core(i)
        closer(i) == {j \in neighbors(m, i) :
                         IF i \in core
                         THEN j \in core /\ in_core(j) = in_core(i) - 1
                         ELSE to_core(j) = to_core(i) - 1}
    IN  [i \in AtomIds(m) |->
            IF i = root THEN root
            ELSE IF d(i) >= m.n \/ closer(i) = {} THEN NoneV
            ELSE Min(closer(i))]

\* subtree stopping at the children of c.
subtree_children(parent, c) ==
    {c} \cup {b \in DOMAIN parent : parent[b] = c}

\* The atoms whose parent path passes through c: c and the subtrees of its
\* children.
RECURSIVE subtree(_, _)
subtree(parent, c) ==
    {c} \cup UNION {subtree(parent, a) :
                       a \in {b \in DOMAIN parent : parent[b] = c /\ b # c}}

is_rotation_candidate(m, core, b) ==
    /\ \A i \in b : Cardinality(neighbors(m, i)) >= 2
    /\ b \notin ring_bonds(m)
    /\ ~(b \subseteq core)

Branch(p, c, rotating, resolution) ==
    [pivot |-> <<p, c>>, atoms |-> rotating, resolution |-> resolution]

\* One branch per rotation candidate (p, c), c the child of p, in
\* increasing order of c.
build_library(m, core, parent, resolution) ==
    LET children == {c \in AtomIds(m) :
                        /\ parent[c] # c
                        /\ is_rotation_candidate(m, core, {parent[c], c})}
        order == SortedSeq(children)
    IN  [i \in DOMAIN order |->
            Branch(parent[order[i]], order[i], subtree(parent, order[i]),
                   resolution)]

Resolutions == {0, 30, 360}

\* set_core: every atom of the molecule is marked core or branch.
mark(atom, core) ==
    IF atom.index \in core THEN set_as_core(atom) ELSE set_as_branch(atom)

(***************************************************************************)
(* Molecule.build_rotamer_library(resolution)                              *)
(***************************************************************************)
build_rotamer_library(resolution) ==
    /\ UNCHANGED <<off_molecule, provider, bonds, angles, propers, OFF_propers,
                   impropers, OFF_impropers, ncalls>>
    /\ IF off_molecule = Unset
       THEN /\ err' = "Exception: Molecule not parameterized"
            /\ stage' = "_assert_parameterized"
            /\ UNCHANGED <<atoms, graph, rotamer_library>>
       ELSE \E m \in {off_molecule[1]} :
            \E core \in {select_core(m)} :
            \E parent \in {assign_parents(m, core)} :
            \E connected \in {\A i \in AtomIds(m) : parent[i] # NoneV} :
            \E valid \in {0 < resolution /\ resolution < 360} :
                /\ graph' = <<[core |-> core, parent |-> parent]>>
                /\ atoms' = [a \in DOMAIN atoms |->
                                 IF ~connected
                                 THEN mark(atoms[a], core)
                                 ELSE set_parent(mark(atoms[a], core),
                                                 parent[atoms[a].index])]
                /\ rotamer_library' =
                       IF connected /\ valid
                       THEN <<build_library(m, core, parent, resolution)>>
                       ELSE rotamer_library
                /\ err' = IF ~connected THEN "DisconnectedMoleculeError"
                          ELSE IF ~valid THEN "InvalidResolutionError"
                          ELSE NoErr
                /\ stage' = IF ~connected THEN "set_parents"
                            ELSE IF ~valid THEN "build_rotamer_library"
                            ELSE "library"

(***************************************************************************)
(* Inputs: the molecule the structure provider loads and the tables the    *)
(* parameter provider reports for it.  The provider labels every atom,     *)
(* bond, angle and torsion of the molecule once.                           *)
(***************************************************************************)
RECURSIVE Code(_, _)
Code(t, n) ==
    IF t = <<>> THEN 0 ELSE Code(SubSeq(t, 1, Len(t) - 1), n) * n + t[Len(t)]

\* The tuples of S over atoms 0..n-1 as a sequence in lexicographic order.
Ordered(S, n) ==
    LET seq == SortedSeq({Code(t, n) : t \in S})
    IN  [i \in DOMAIN seq |-> CHOOSE t \in S : Code(t, n) = seq[i]]

BondKeys(m) ==
    {<<i, j>> \in AtomIds(m) \X AtomIds(m) : i < j /\ {i, j} \in m.bonds}

AngleKeys(m) ==
    {<<i, j, k>> \in AtomIds(m) \X AtomIds(m) \X AtomIds(m) :
        i < k /\ {i, j} \in m.bonds /\ {j, k} \in m.bonds}

ProperKeys(m) ==
    {<<i, j, k, l>> \in AtomIds(m) \X AtomIds(m) \X AtomIds(m) \X AtomIds(m) :
        /\ i < l /\ i # k /\ j # l
        /\ {i, j} \in m.bonds /\ {j, k} \in m.bonds /\ {k, l} \in m.bonds}

ImproperKeys(m) ==
    {<<a, j, b, c>> \in AtomIds(m) \X AtomIds(m) \X AtomIds(m) \X AtomIds(m) :
        a < b /\ b < c /\ {a, b, c} \subseteq neighbors(m, j)}

Profile(periodicity, phase, k, idivf) ==
    [periodicity |-> periodicity, phase |-> phase, k |-> k, idivf |-> idivf]

\* The four torsion tables of the terms tc, each term a function from its
\* quadruples to the parameters of the quadruple.
Tables(tc) ==
    [periodicities |-> [t \in DOMAIN tc |-> [q \in DOMAIN tc[t] |-> tc[t][q].periodicity]],
     phases |-> [t \in DOMAIN tc |-> [q \in DOMAIN tc[t] |-> tc[t][q].phase]],
     ks |-> [t \in DOMAIN tc |-> [q \in DOMAIN tc[t] |-> tc[t][q].k]],
     idivfs |-> [t \in DOMAIN tc |-> [q \in DOMAIN tc[t] |-> tc[t][q].idivf]]]

OneTerm(K) == IF K = {} THEN <<>> ELSE <<[q \in K |-> Profile(1, 1, 1, 1)]>>

\* What the provider reports for molecule m when every parameter is set.
BaseProvider(m) ==
    LET P == Tables(OneTerm(ProperKeys(m)))
        I == Tables(OneTerm(ImproperKeys(m)))
    IN  [vdW_sigmas |-> [i \in 1..m.n |-> 2 * i],
         vdW_sigmas_from_rmin_halves |-> [i \in 1..m.n |-> 20 + 2 * i],
         vdW_epsilons |-> [i \in 1..m.n |-> 1],
         charges |-> [i \in 1..m.n |-> 0],
         bond_keys |-> Ordered(BondKeys(m), m.n),
         bond_ks |-> [b \in BondKeys(m) |-> 1],
         bond_lengths |-> [b \in BondKeys(m) |-> 2],
         angle_keys |-> Ordered(AngleKeys(m), m.n),
         angle_ks |-> [a \in AngleKeys(m) |-> 1],
         angle_angles |-> [a \in AngleKeys(m) |-> 2],
         dihedral_order |-> Ordered(ProperKeys(m), m.n),
         dihedral_periodicities |-> P.periodicities,
         dihedral_phases |-> P.phases,
         dihedral_ks |-> P.ks,
         dihedral_idivfs |-> P.idivfs,
         improper_order |-> Ordered(ImproperKeys(m), m.n),
         improper_periodicities |-> I.periodicities,
         improper_phases |-> I.phases,
         improper_ks |-> I.ks,
         improper_idivfs |-> I.idivfs]

Chain(n) == Mol(n, {{i, i + 1} : i \in 0..(n - 2)})

Reverse(t) == [i \in DOMAIN t |-> t[Len(t) + 1 - i]]

\* The ways a table can list the keys K: in any order, each key either way
\* round.
Listings(K) ==
    LET O == K \cup {Reverse(t) : t \in K}
    IN  {s \in [1..Cardinality(K) -> O] :
            \A i, j \in DOMAIN s : i # j => s[i] # s[j] /\ s[i] # Reverse(s[j])}

SigmaValues == {NoneV, 2, 4}

\* (spring constant, equilibrium value) of a bond or an angle
SpringValues == {<<1, 2>>, <<2, 1>>}

WithSigmas(base, s) == [base EXCEPT !.vdW_sigmas = s]

WithBonds(base, c) ==
    [base EXCEPT !.bond_keys = c[1],
                 !.bond_ks = [b \in Range(c[1]) |-> c[2][b][1]],
                 !.bond_lengths = [b \in Range(c[1]) |-> c[2][b][2]]]

WithAngles(base, c) ==
    [base EXCEPT !.angle_keys = c[1],
                 !.angle_ks = [a \in Range(c[1]) |-> c[2][a][1]],
                 !.angle_angles = [a \in Range(c[1]) |-> c[2][a][2]]]

\* A listing of the keys K with a pair of values for every key listed.
Valued(K) ==
    UNION {{<<s, v>> : v \in [Range(s) -> SpringValues]} : s \in Listings(K)}

AtomInputs ==
    UNION {LET base == BaseProvider(Chain(n))
           IN  {<<Chain(n), WithSigmas(base, c)>> : c \in [1..n -> SigmaValues]} :
              n \in 1..MaxChain}

BondInputs ==
    UNION {LET base == BaseProvider(Chain(n))
           IN  {<<Chain(n), WithBonds(base, c)>> : c \in Valued(BondKeys(Chain(n)))} :
              n \in 2..MaxChain}

AngleInputs ==
    UNION {LET base == BaseProvider(Chain(n))
           IN  {<<Chain(n), WithAngles(base, c)>> : c \in Valued(AngleKeys(Chain(n)))} :
              n \in 3..MaxChain}

\* Parameters of one quadruple in the first term: present and truthy, or
\* with one of the four 0 or None.
Profiles ==
    {Profile(1, 1, 1, 1), Profile(2, 2, 2, 2), Profile(NoneV, 1, 1, 1),
     Profile(1, 0, 1, 1), Profile(1, 1, 0, 1), Profile(1, 1, 1, NoneV)}

\* Parameters of one quadruple in a later term: truthy, or with k = 0.
LaterProfiles == {Profile(1, 1, 1, 1), Profile(3, 1, 0, 2)}

TermChoices(K, profiles) == UNION {[Kt -> profiles] : Kt \in SUBSET K}

Terms(K, first, later) ==
    UNION {{tc \in [1..nT -> TermChoices(K, first \cup later)] :
               \A t \in 2..nT : \A q \in DOMAIN tc[t] : tc[t][q] \in later} :
           nT \in 0..MaxTerms}

TableNames == {"periodicities", "phases", "ks", "idivfs"}

\* The tables T with one of them changed: its last term missing, or a key
\* missing from or added to one of its terms.
Altered(T, K, names) ==
    UNION {
        {[T EXCEPT ![f] = SubSeq(T[f], 1, Len(T[f]) - 1)] : x \in {1} \cap DOMAIN T[f]}
        \cup UNION {
            {[T EXCEPT ![f][t] = [q \in DOMAIN T[f][t] \ {g} |-> T[f][t][q]]] :
                g \in DOMAIN T[f][t]}
            \cup
            {[T EXCEPT ![f][t] = [q \in DOMAIN T[f][t] \cup {g} |->
                                     IF q = g THEN 1 ELSE T[f][t][q]]] :
                g \in K \ DOMAIN T[f][t]} :
            t \in DOMAIN T[f]} :
        f \in names}

NoIdivf(T) == [T EXCEPT !.idivfs = <<>>]

TorsionTables(K) ==
    LET consistent == {Tables(tc) : tc \in Terms(K, Profiles, LaterProfiles)}
        truthy == {Tables(tc) : tc \in Terms(K, {Profile(1, 1, 1, 1)}, {Profile(1, 1, 1, 1)})}
    IN  consistent
        \cup {NoIdivf(T) : T \in consistent}
        \cup UNION {Altered(T, K, TableNames) : T \in truthy}
        \cup UNION {Altered(NoIdivf(T), K, TableNames \ {"idivfs"}) : T \in truthy}

\* Two propers (0,1,2,3) and (3,2,1,4), one improper centre.
ProperMolecule == Mol(5, {{0, 1}, {1, 2}, {2, 3}, {1, 4}})

\* Two improper centres, atoms 1 and 2.
ImproperMolecule == Mol(6, {{0, 1}, {1, 2}, {1, 3}, {2, 4}, {2, 5}})

WithPropers(base, T) ==
    [base EXCEPT !.dihedral_periodicities = T.periodicities,
                 !.dihedral_phases = T.phases,
                 !.dihedral_ks = T.ks,
                 !.dihedral_idivfs = T.idivfs]

WithImpropers(base, T) ==
    [base EXCEPT !.improper_periodicities = T.periodicities,
                 !.improper_phases = T.phases,
                 !.improper_ks = T.ks,
                 !.improper_idivfs = T.idivfs]

ProperInputs ==
    LET base == BaseProvider(ProperMolecule)
    IN  {<<ProperMolecule, WithPropers(base, c)>> : c \in TorsionTables(ProperKeys(ProperMolecule))}

ImproperInputs ==
    LET base == BaseProvider(ImproperMolecule)
    IN  {<<ImproperMolecule, WithImpropers(base, c)>> : c \in TorsionTables(ImproperKeys(ImproperMolecule))}

Pairs(n) == {b \in SUBSET (0..(n - 1)) : Cardinality(b) = 2}

\* Connected molecules of up to MaxGraphAtoms atoms: every atom after the
\* first is bonded to one of the two atoms before it, and at most one more
\* bond closes a ring.
Molecules ==
    UNION {UNION {{Mol(n, tree \cup ring) :
                      ring \in {{}} \cup {{b} : b \in Pairs(n)}} :
                  tree \in {{{i, up[i]} : i \in 1..(n - 1)} :
                               up \in {f \in [1..(n - 1) -> 0..(n - 1)] :
                                          \A i \in 1..(n - 1) :
                                              f[i] < i /\ f[i] >= i - 2}}} :
           n \in 1..MaxGraphAtoms}

\* Molecules of two separate atom groups with no bond between them.
Fragments ==
    {Mol(2, {}), Mol(4, {{0, 1}, {2, 3}}),
     Mol(5, {{0, 1}, {1, 2}, {0, 2}, {3, 4}})}

GraphInputs == {<<m, BaseProvider(m)>> : m \in Molecules \cup Fragments}

TableInputs ==
    AtomInputs \cup BondInputs \cup AngleInputs \cup ProperInputs
    \cup ImproperInputs

(***************************************************************************)
(* Molecule(path): _initialize_from_pdb for a PDB path, _initialize        *)
(* otherwise.                                                              *)
(***************************************************************************)
_initialize ==
    /\ atoms = <<>>
    /\ bonds = <<>>
    /\ angles = <<>>
    /\ propers = <<>>
    /\ OFF_propers = <<>>
    /\ impropers = <<>>
    /\ OFF_impropers = <<>>
    /\ rotamer_library = Unset
    /\ graph = Unset
    /\ err = NoErr
    /\ stage = "init"
    /\ ncalls = 0

_initialize_from_pdb(inputs) ==
    /\ _initialize
    /\ \E in \in inputs :
           /\ off_molecule = <<in[1]>>
           /\ provider = in[2]

\* Molecule() without a path
Empty ==
    /\ _initialize
    /\ off_molecule = Unset
    /\ provider = BaseProvider(Mol(0, {}))

Init == _initialize_from_pdb(GraphInputs \cup AtomInputs) \/ Empty

Next ==
    \/ parameterize
    \/ \E resolution \in Resolutions : build_rotamer_library(resolution)

Spec == Init /\ [][Next]_vars

(***************************************************************************)
(* The topology build alone, over the tables of every kind.                *)
(***************************************************************************)
InitBuild == _initialize_from_pdb(TableInputs) \/ Empty

NextBuild == parameterize

SpecBuild == InitBuild /\ [][NextBuild]_vars

(***************************************************************************)
(* Vocabulary of the properties.                                           *)
(***************************************************************************)
Classes == {"proper", "improper"}

Periodicities(c) ==
    IF c = "proper" THEN provider.dihedral_periodicities
    ELSE provider.improper_periodicities

Phases(c) ==
    IF c = "proper" THEN provider.dihedral_phases ELSE provider.improper_phases

Ks(c) == IF c = "proper" THEN provider.dihedral_ks ELSE provider.improper_ks

Idivfs(c) ==
    IF c = "proper" THEN provider.dihedral_idivfs ELSE provider.improper_idivfs

OFFList(c) == IF c = "proper" THEN OFF_propers ELSE OFF_impropers

PELEList(c) == IF c = "proper" THEN propers ELSE impropers

\* The last call was parameterize and it ran the torsion build of class c.
Attempted(c) ==
    IF c = "proper" THEN stage \in {"propers", "impropers", "done"}
    ELSE stage \in {"impropers", "done"}

\* ... and the build of class c returned.
Completed(c) ==
    IF c = "proper" THEN stage \in {"impropers", "done"} ELSE stage = "done"

Called == ncalls' = ncalls + 1

\* What a step appended to a list.
Appended(old, new) == SubSeq(new, Len(old) + 1, Len(new))

NewOFF(c) == Appended(OFFList(c), OFFList(c)')

NewPELE(c) == Appended(PELEList(c), PELEList(c)')

Count(s, r) == Cardinality({i \in DOMAIN s : s[i] = r})

Quad(r) == <<r.atom1_idx, r.atom2_idx, r.atom3_idx, r.atom4_idx>>

\* The four tables of class c agree on the number of terms and, term by
\* term, on the keys.
SameKeys(c) ==
    /\ DOMAIN Phases(c) = DOMAIN Periodicities(c)
    /\ DOMAIN Ks(c) = DOMAIN Periodicities(c)
    /\ DOMAIN Idivfs(c) = DOMAIN Periodicities(c)
    /\ \A t \in DOMAIN Periodicities(c) :
           /\ DOMAIN Phases(c)[t] = DOMAIN Periodicities(c)[t]
           /\ DOMAIN Ks(c)[t] = DOMAIN Periodicities(c)[t]
           /\ DOMAIN Idivfs(c)[t] = DOMAIN Periodicities(c)[t]

\* The same of the three tables other than the divisor's.
SameKeysButIdivf(c) ==
    /\ DOMAIN Phases(c) = DOMAIN Periodicities(c)
    /\ DOMAIN Ks(c) = DOMAIN Periodicities(c)
    /\ \A t \in DOMAIN Periodicities(c) :
           /\ DOMAIN Phases(c)[t] = DOMAIN Periodicities(c)[t]
           /\ DOMAIN Ks(c)[t] = DOMAIN Periodicities(c)[t]

\* The (term, quadruple) entries of class c.
Entries(c) ==
    UNION {{<<t, q>> : q \in DOMAIN Periodicities(c)[t]} :
           t \in DOMAIN Periodicities(c)}

\* The record of entry e with the divisor the provider reports.
Reported(c, e) ==
    [atom1_idx |-> e[2][1], atom2_idx |-> e[2][2], atom3_idx |-> e[2][3],
     atom4_idx |-> e[2][4], periodicity |-> Periodicities(c)[e[1]][e[2]],
     phase |-> Phases(c)[e[1]][e[2]], k |-> Ks(c)[e[1]][e[2]],
     idivf |-> Idivfs(c)[e[1]][e[2]]]

AllTruthy(r) ==
    Truthy(r.periodicity) /\ Truthy(r.phase) /\ Truthy(r.k) /\ Truthy(r.idivf)

(***************************************************************************)
(* C1: in a torsion build that returns, over tables that report a divisor, *)
(* an entry (term, quadruple) contributes a record if and only if its      *)
(* periodicity, phase, k and idivf are all truthy: the records appended    *)
(* are, with multiplicity, the records of the all-truthy entries, in both  *)
(* the OpenForceField and the PELE list.                                   *)
(***************************************************************************)
C1_TorsionFilter ==
    [][\A c \in Classes :
          (Called /\ Completed(c)' /\ Idivfs(c) # <<>>) =>
              /\ \A e \in Entries(c) :
                     Count(NewOFF(c), Reported(c, e)) =
                         Cardinality({f \in Entries(c) :
                                         /\ Reported(c, f) = Reported(c, e)
                                         /\ AllTruthy(Reported(c, f))})
              /\ \A r \in Range(NewOFF(c)) :
                     \E e \in Entries(c) : r = Reported(c, e)
              /\ Len(NewPELE(c)) = Len(NewOFF(c))
              /\ \A i \in DOMAIN NewOFF(c) :
                     Quad(NewPELE(c)[i]) = Quad(NewOFF(c)[i])]_vars

\* A build returned that dropped an entry for k = 0 and kept another.
C1_Witness ==
    /\ ncalls = 1
    /\ \E c \in Classes :
           /\ Completed(c)
           /\ Idivfs(c) # <<>>
           /\ \E e, f \in Entries(c) :
                  /\ Reported(c, e).k = 0
                  /\ Count(OFFList(c), Reported(c, e)) = 0
                  /\ AllTruthy(Reported(c, f))
                  /\ Count(OFFList(c), Reported(c, f)) >= 1

\* The divisor of entry e: the reported one, or 1 when the provider reports
\* no divisor table at all.
Divided(c, e) ==
    [atom1_idx |-> e[2][1], atom2_idx |-> e[2][2], atom3_idx |-> e[2][3],
     atom4_idx |-> e[2][4], periodicity |-> Periodicities(c)[e[1]][e[2]],
     phase |-> Phases(c)[e[1]][e[2]], k |-> Ks(c)[e[1]][e[2]],
     idivf |-> IF Idivfs(c) = <<>> THEN 1 ELSE Idivfs(c)[e[1]][e[2]]]

WithoutIdivf(r) == <<Quad(r), r.periodicity, r.phase, r.k>>

TruthyButIdivf(c, e) ==
    /\ Truthy(Periodicities(c)[e[1]][e[2]])
    /\ Truthy(Phases(c)[e[1]][e[2]])
    /\ Truthy(Ks(c)[e[1]][e[2]])

(***************************************************************************)
(* C2: when the provider reports no divisor table for a class whose other  *)
(* tables agree, the build of the class returns, every record it appends   *)
(* has divisor 1, and the records appended are those of the entries whose  *)
(* periodicity, phase and k are truthy: none is dropped for its divisor.   *)
(***************************************************************************)
C2_DefaultDivisor ==
    [][\A c \in Classes :
          (Called /\ Attempted(c)' /\ Idivfs(c) = <<>> /\ SameKeysButIdivf(c)) =>
              /\ Completed(c)'
              /\ \A r \in Range(NewOFF(c)) : r.idivf = 1
              /\ {WithoutIdivf(r) : r \in Range(NewOFF(c))} =
                     {WithoutIdivf(Divided(c, e)) :
                         e \in {f \in Entries(c) : TruthyButIdivf(c, f)}}
              /\ Len(NewOFF(c)) =
                     Cardinality({e \in Entries(c) : TruthyButIdivf(c, e)})]_vars

\* A build over tables without divisors returned and appended records.
C2_Witness ==
    /\ ncalls = 1
    /\ \E c \in Classes :
           /\ Completed(c)
           /\ Idivfs(c) = <<>>
           /\ Len(Periodicities(c)) = MaxTerms
           /\ Len(OFFList(c)) >= 2
           /\ \A i \in DOMAIN OFFList(c) : OFFList(c)[i].idivf = 1

\* The tables of class c agree, the divisor's left out when the provider
\* reports none.
Consistent(c) ==
    IF Idivfs(c) = <<>> THEN SameKeysButIdivf(c) ELSE SameKeys(c)

SameLengths(c) ==
    /\ Len(Phases(c)) = Len(Periodicities(c))
    /\ Len(Ks(c)) = Len(Periodicities(c))
    /\ Idivfs(c) # <<>> => Len(Idivfs(c)) = Len(Periodicities(c))

TermAgrees(c, t) ==
    /\ DOMAIN Phases(c)[t] = DOMAIN Periodicities(c)[t]
    /\ DOMAIN Ks(c)[t] = DOMAIN Periodicities(c)[t]
    /\ Idivfs(c) # <<>> => DOMAIN Idivfs(c)[t] = DOMAIN Periodicities(c)[t]

\* The first term of class c whose tables disagree (1 when the tables
\* disagree on the number of terms): no record of it or of a later term is
\* due.
Offending(c) ==
    IF ~SameLengths(c) THEN 1
    ELSE Min({t \in DOMAIN Periodicities(c) : ~TermAgrees(c, t)})

BuildStage(c) == IF c = "proper" THEN "propers" ELSE "impropers"

NoneOfOffending(c) ==
    Len(NewOFF(c)) =
        Cardinality({e \in Entries(c) :
                        e[1] < Offending(c) /\ AllTruthy(Divided(c, e))})

C4_NoPartialState ==
    [][(Called /\ err' # NoErr) =>
          /\ atoms' = atoms
          /\ bonds' = bonds
          /\ angles' = angles
          /\ propers' = propers
          /\ impropers' = impropers]_vars

\* The positions of the records of quadruple q in s, ascending.
Positions(s, q) == SortedSeq({i \in DOMAIN s : Quad(s[i]) = q})

\* The terms in which entry (t, q) is all truthy, ascending.
PassingTerms(c, q) ==
    SortedSeq({t \in DOMAIN Periodicities(c) :
                  /\ q \in DOMAIN Periodicities(c)[t]
                  /\ AllTruthy(Divided(c, <<t, q>>))})

Quads(c) == UNION {DOMAIN Periodicities(c)[t] : t \in DOMAIN Periodicities(c)}

(***************************************************************************)
(* C8: a torsion build that returns keeps one record per periodicity term  *)
(* for a quadruple that passes the filter in several terms: the records it *)
(* appends for the quadruple are, in order, those of the passing terms, in *)
(* the OpenForceField list and in the PELE list.                           *)
(***************************************************************************)
C8_AllTermsRetained ==
    [][\A c \in Classes :
          (Called /\ Completed(c)') =>
              \A q \in Quads(c) :
                  LET at == Positions(NewOFF(c), q)
                      terms == PassingTerms(c, q)
                  IN  /\ Len(at) = Len(terms)
                      /\ \A i \in DOMAIN at :
                             NewOFF(c)[at[i]] = Divided(c, <<terms[i], q>>)
                      /\ Positions(NewPELE(c), q) = at]_vars

\* A quadruple passed in two terms with different parameters and has two
\* records.
C8_Witness ==
    /\ ncalls = 1
    /\ \E c \in Classes :
           /\ Completed(c)
           /\ \E q \in Quads(c) :
                  /\ Len(PassingTerms(c, q)) = 2
                  /\ Len(Positions(OFFList(c), q)) = 2
                  /\ OFFList(c)[Positions(OFFList(c), q)[1]]
                       # OFFList(c)[Positions(OFFList(c), q)[2]]

NewBonds == Appended(bonds, bonds')

NewAngles == Appended(angles, angles')

(***************************************************************************)
(* C9: a bond (angle) build appends one record per entry of the bond       *)
(* (angle) table, in table order, the i-th with index i - 1, the atoms of  *)
(* the entry's key in the key's order and the provider's spring constant   *)
(* and equilibrium value for the key; the bonds appended join two          *)
(* different atoms and no two of them join the same pair.                  *)
(***************************************************************************)
C9_BondsAndAngles ==
    [][Called =>
          /\ stage' \notin {"check", "atoms"} =>
                 /\ Len(NewBonds) = Len(provider.bond_keys)
                 /\ \A i \in DOMAIN NewBonds :
                        NewBonds[i] =
                            [index |-> i - 1,
                             atom1_idx |-> provider.bond_keys[i][1],
                             atom2_idx |-> provider.bond_keys[i][2],
                             spring_constant |-> provider.bond_ks[provider.bond_keys[i]],
                             eq_dist |-> provider.bond_lengths[provider.bond_keys[i]]]
                 /\ \A i \in DOMAIN NewBonds :
                        NewBonds[i].atom1_idx # NewBonds[i].atom2_idx
                 /\ \A i, j \in DOMAIN NewBonds :
                        i # j => {NewBonds[i].atom1_idx, NewBonds[i].atom2_idx}
                                   # {NewBonds[j].atom1_idx, NewBonds[j].atom2_idx}
          /\ stage' \notin {"check", "atoms", "bonds"} =>
                 /\ Len(NewAngles) = Len(provider.angle_keys)
                 /\ \A i \in DOMAIN NewAngles :
                        NewAngles[i] =
                            [index |-> i - 1,
                             atom1_idx |-> provider.angle_keys[i][1],
                             atom2_idx |-> provider.angle_keys[i][2],
                             atom3_idx |-> provider.angle_keys[i][3],
                             spring_constant |-> provider.angle_ks[provider.angle_keys[i]],
                             eq_angle |-> provider.angle_angles[provider.angle_keys[i]]]]_vars

\* Bonds were built from a table that lists a key high atom first, with
\* different constants for two bonds, and angles with them.
C9_Witness ==
    /\ ncalls = 1
    /\ stage = "done"
    /\ Len(bonds) >= 2
    /\ bonds[1].atom1_idx > bonds[1].atom2_idx
    /\ bonds[1].spring_constant # bonds[2].spring_constant
    /\ bonds[2].index = 1
    /\ Len(angles) >= 1

\* C6 as stated: after parameterize on a loaded molecule the atoms are built,
\* an atom whose sigma the provider does not report has the sigma derived
\* from rmin half, and every atom's SASA radius is half its sigma.
C6_SigmaFallback ==
    (ncalls >= 1 /\ off_molecule # Unset) =>
        /\ stage # "atoms"
        /\ Len(atoms) >= off_molecule[1].n
        /\ \A a \in DOMAIN atoms :
               /\ provider.vdW_sigmas[atoms[a].index + 1] = NoneV =>
                      atoms[a].sigma =
                          provider.vdW_sigmas_from_rmin_halves[atoms[a].index + 1]
               /\ 2 * atoms[a].SASA_radius = atoms[a].sigma

\* C5 as stated: after any number of parameterize calls that return, the
\* lists hold one Atom per atom index and one record per emitted table entry.
C5_CreatedOnce ==
    (ncalls >= 1 /\ stage = "done") =>
        /\ Len(atoms) = off_molecule[1].n
        /\ \A i, j \in DOMAIN atoms : i # j => atoms[i].index # atoms[j].index
        /\ Len(bonds) = Len(provider.bond_keys)
        /\ Len(angles) = Len(provider.angle_keys)
        /\ \A c \in Classes :
               /\ Len(OFFList(c)) =
                      Cardinality({e \in Entries(c) : AllTruthy(Divided(c, e))})
               /\ Len(PELEList(c)) = Len(OFFList(c))

Unassigned(atom) ==
    /\ atom.OPLS_type = NoneV
    /\ atom.born_radius = NoneV
    /\ atom.nonpolar_gamma = NoneV
    /\ atom.nonpolar_alpha = NoneV

(***************************************************************************)
(* C7: every atom has OPLS type, Born radius, nonpolar gamma and nonpolar  *)
(* alpha None; core and parent are None on every atom as long as no        *)
(* rotamer graph was constructed; and a parameterize call leaves the atoms *)
(* it finds as they are and appends atoms whose core and parent are None.  *)
(***************************************************************************)
C7_UnassignedFields ==
    [][/\ \A a \in DOMAIN atoms' : Unassigned(atoms'[a])
       /\ graph' = Unset =>
              \A a \in DOMAIN atoms' :
                  atoms'[a].core = NoneV /\ atoms'[a].parent = NoneV
       /\ Called =>
              /\ Len(atoms') >= Len(atoms)
              /\ \A a \in DOMAIN atoms' :
                     IF a \in DOMAIN atoms
                     THEN atoms'[a] = atoms[a]
                     ELSE atoms'[a].core = NoneV /\ atoms'[a].parent = NoneV]_vars

\* parameterize ran after the rotamer graph marked the atoms: the atoms it
\* found keep core and parent, the atoms it appended have none.
C7_Witness ==
    /\ ncalls = 2
    /\ graph # Unset
    /\ Len(atoms) = 2 * off_molecule[1].n
    /\ atoms[1].core # NoneV
    /\ atoms[1].parent # NoneV
    /\ atoms[Len(atoms)].core = NoneV
    /\ atoms[Len(atoms)].parent = NoneV
    /\ Unassigned(atoms[Len(atoms)])

\* C10 as stated: the rotating sets of two different branches are disjoint.
C10_Disjoint ==
    rotamer_library # Unset =>
        \A i, j \in DOMAIN rotamer_library[1] :
            i # j => rotamer_library[1][i].atoms \cap rotamer_library[1][j].atoms = {}

\* The parent path of atom a to the root passes through c.
RECURSIVE PassesThrough(_, _, _)
PassesThrough(parent, a, c) ==
    \/ a = c
    \/ parent[a] # a /\ PassesThrough(parent, parent[a], c)

(***************************************************************************)
(* C10, amended: every rotation-candidate bond (p, c) yields one branch,   *)
(* whose rotating set is exactly the set of atoms whose parent path to the *)
(* root passes through c; the rotating sets of two different branches are  *)
(* disjoint or one contains the other, and they are disjoint exactly when  *)
(* neither branch's c lies downstream of the other's.                      *)
(***************************************************************************)
C10_DisjointOrNested ==
    rotamer_library # Unset =>
        LET library == rotamer_library[1]
            m == off_molecule[1]
            parent == graph[1].parent
        IN  /\ \A b \in m.bonds :
                   is_rotation_candidate(m, graph[1].core, b) =>
                       Cardinality({i \in DOMAIN library :
                                       {library[i].pivot[1], library[i].pivot[2]} = b}) = 1
            /\ \A i \in DOMAIN library :
                   /\ parent[library[i].pivot[2]] = library[i].pivot[1]
                   /\ library[i].atoms =
                          {a \in AtomIds(m) :
                              PassesThrough(parent, a, library[i].pivot[2])}
            /\ \A i, j \in DOMAIN library :
                   i # j =>
                       LET A == library[i].atoms
                           B == library[j].atoms
                       IN  /\ A # B
                           /\ A \cap B = {} \/ A \subseteq B \/ B \subseteq A
                           /\ A \cap B = {} <=>
                                  /\ library[i].pivot[2] \notin B
                                  /\ library[j].pivot[2] \notin A

\* A library with a branch inside another and with two disjoint branches.
C10_Witness ==
    /\ rotamer_library # Unset
    /\ \E i, j, k \in DOMAIN rotamer_library[1] :
           /\ rotamer_library[1][j].atoms \subseteq rotamer_library[1][i].atoms
           /\ rotamer_library[1][j].atoms # rotamer_library[1][i].atoms
           /\ Cardinality(rotamer_library[1][j].atoms) >= 2
           /\ rotamer_library[1][k].atoms \cap rotamer_library[1][i].atoms = {}

\* The molecule is one connected component.
IsConnected(m) == Reach(m.bonds, {0}) = AtomIds(m)

\* Following parent links from atom a reaches root in at most steps steps.
RECURSIVE ReachesRoot(_, _, _, _)
ReachesRoot(parent, a, root, steps) ==
    \/ a = root
    \/ /\ steps > 0
       /\ parent[a] \in DOMAIN parent
       /\ ReachesRoot(parent, parent[a], root, steps - 1)

GraphBuilt == stage \in {"set_parents", "build_rotamer_library", "library"}

Succeeds ==
    /\ off_molecule # Unset
    /\ _build_atoms(off_molecule[1], provider).err = NoErr
    /\ _build_bonds(provider).err = NoErr
    /\ _build_angles(provider).err = NoErr
    /\ _build_propers(provider).err = NoErr
    /\ _build_impropers(provider).err = NoErr

\* A parameterize call on the molecule has completed.
Parameterized == ncalls >= 1 /\ Succeeds

\* A step of build_rotamer_library: every parameterize step counts a call.
RotamerStep == ncalls' = ncalls

NotParameterized == "Exception: Molecule not parameterized"

\* C12 as stated: build_rotamer_library raises 'Molecule not parameterized'
\* and leaves graph and rotamer_library None unless a parameterize call has
\* completed on the molecule, created empty or loaded from a PDB file; after
\* one has, it builds the graph and then, last, the library.
C12_ParameterizedFirst ==
    [][RotamerStep =>
          IF Parameterized
          THEN /\ err' # NotParameterized
               /\ graph' # Unset
               /\ rotamer_library' # rotamer_library => stage' = "library"
          ELSE /\ err' = NotParameterized
               /\ graph' = Unset
               /\ rotamer_library' = Unset]_vars

(***************************************************************************)
(* C13: in every state the PELE and the OpenForceField list of propers,    *)
(* and of impropers, have the same length, and the i-th PELE record is the *)
(* conversion of the i-th OpenForceField record: same atom quadruple, same *)
(* periodicity, phase and constants.                                       *)
(***************************************************************************)
C13_Lockstep ==
    \A c \in Classes :
        /\ Len(PELEList(c)) = Len(OFFList(c))
        /\ \A i \in DOMAIN OFFList(c) :
               /\ Quad(PELEList(c)[i]) = Quad(OFFList(c)[i])
               /\ PELEList(c)[i].periodicity = OFFList(c)[i].periodicity
               /\ PELEList(c)[i] = to_PELE(OFFList(c)[i])

\* Two calls aborted in the second term of a class: the records of the first
\* term are in both lists twice, one quadruple with several terms.
C13_Witness ==
    /\ ncalls = 2
    /\ err = "AssertionError"
    /\ \E c \in Classes :
           /\ stage = BuildStage(c)
           /\ Len(OFFList(c)) >= 2
           /\ Len(PELEList(c)) = Len(OFFList(c))
           /\ Offending(c) = 2

====
